---- MODULE Spec2Model ----
(***************************************************************************)
(* Rain-water harvesting estimator (src/main.py): the two datasets loaded  *)
(* at import time, the alias table, the reverse-geocoding wrapper and the  *)
(* two request handlers manual_calculate and calculate.                    *)
(*                                                                         *)
(* Python strings are sequences of one-character strings, so that upper()  *)
(* and strip() are computed character by character.  Python numbers are    *)
(* exact fractions n/d in lowest terms (the float rounding error of the    *)
(* interpreter is not modelled).  Every Python value carries a type tag.   *)
(***************************************************************************)
EXTENDS Integers, Sequences, FiniteSets, TLC

VARIABLES
    rainfall_csv,       \* contents of "district wise rainfall normal.csv"
    groundwater_csv,    \* contents of "groundwater_data.csv"
    RAIN_DATA,          \* module global, main.py:52
    GROUNDWATER_DATA,   \* module global, main.py:53
    STATE_ALIAS,        \* module global, main.py:57
    endpoint,           \* "idle", "manual" or "geo": the request last served
    request,            \* JSON body of that request
    provider,           \* what the geocoding provider did for that request
    geod_area,          \* signed area the geodesic library returned for it
    response,           \* the HTTP response of that request
    frame,              \* the handler's local variables when it returned
    pc,                 \* per worker thread: position in its handler
    treq,               \* per worker thread: the request it serves
    tenv,               \* per worker thread: provider outcome and geodesic area
    tloc,               \* per worker thread: the handler's local variables
    tresp               \* per worker thread: the response it produced

vars == <<rainfall_csv, groundwater_csv, RAIN_DATA, GROUNDWATER_DATA,
          STATE_ALIAS, endpoint, request, provider, geod_area, response,
          frame, pc, treq, tenv, tloc, tresp>>

tables == <<rainfall_csv, groundwater_csv, RAIN_DATA, GROUNDWATER_DATA, STATE_ALIAS>>

single == <<endpoint, request, provider, geod_area, response, frame>>

threaded == <<pc, treq, tenv, tloc, tresp>>

-----------------------------------------------------------------------------
(* Bounds *)

NumThreads == 2

-----------------------------------------------------------------------------
(* Python values *)

None == [t |-> "None"]

Absent == [t |-> "absent"]

Str(s) == [t |-> "str", v |-> s]

RECURSIVE GCD(_, _)
GCD(a, b) == IF b = 0 THEN a ELSE GCD(b, a % b)

Abs(i) == IF i < 0 THEN -i ELSE i

Frac(n, d) ==
    LET g == GCD(Abs(n), Abs(d))
        s == IF d < 0 THEN -1 ELSE 1
    IN  [t |-> "num", n |-> s * (n \div g), d |-> s * (d \div g)]

Num(i) == [t |-> "num", n |-> i, d |-> 1]

IsNum(x) == x.t = "num"

IsStr(x) == x.t = "str"

Mul(x, y) ==
    LET a == Frac(x.n, y.d)
        b == Frac(y.n, x.d)
    IN  Frac(a.n * b.n, a.d * b.d)

Div(x, y) == Mul(x, Frac(y.d, y.n))

Less(x, y) == x.n * y.d < y.n * x.d

LessEq(x, y) == x.n * y.d <= y.n * x.d

NumAbs(x) == [t |-> "num", n |-> Abs(x.n), d |-> x.d]

\* Python's truth value of None, a string or a number
Truthy(x) ==
    CASE x.t = "None" -> FALSE
      [] x.t = "str"  -> x.v # <<>>
      [] x.t = "num"  -> x.n # 0

\* round(x, 2): to the nearest hundredth, ties to the even hundredth
Round2(x) ==
    LET whole == x.n \div x.d
        rest == x.n % x.d
        q == whole * 100 + ((rest * 100) \div x.d)
        r == (rest * 100) % x.d
        up == \/ 2 * r > x.d
              \/ 2 * r = x.d /\ q % 2 = 1
    IN  Frac(IF up THEN q + 1 ELSE q, 100)

-----------------------------------------------------------------------------
(* str.upper() and str.strip() *)

LowerCase == <<"a", "b", "c", "d", "e", "f", "g", "h", "i", "j", "k", "l", "m",
               "n", "o", "p", "q", "r", "s", "t", "u", "v", "w", "x", "y", "z">>

UpperCase == <<"A", "B", "C", "D", "E", "F", "G", "H", "I", "J", "K", "L", "M",
               "N", "O", "P", "Q", "R", "S", "T", "U", "V", "W", "X", "Y", "Z">>

UpperChar(c) ==
    IF \E i \in DOMAIN LowerCase : LowerCase[i] = c
    THEN UpperCase[CHOOSE i \in DOMAIN LowerCase : LowerCase[i] = c]
    ELSE c

Upper(s) == [i \in DOMAIN s |-> UpperChar(s[i])]

IsSpace(c) == c \in {" ", "\t", "\n"}

RECURSIVE LStrip(_)
LStrip(s) == IF s # <<>> /\ IsSpace(Head(s)) THEN LStrip(Tail(s)) ELSE s

RECURSIVE RStrip(_)
RStrip(s) ==
    IF s # <<>> /\ IsSpace(s[Len(s)]) THEN RStrip(SubSeq(s, 1, Len(s) - 1)) ELSE s

Strip(s) == RStrip(LStrip(s))

\* dict.get(key, default)
DictGet(d, k, default) == IF k \in DOMAIN d THEN d[k] ELSE default

-----------------------------------------------------------------------------
(* The strings the model uses, character by character *)

ANDHRA_PRADESH == <<"A", "N", "D", "H", "R", "A", " ", "P", "R", "A", "D", "E", "S", "H">>

TELANGANA == <<"T", "E", "L", "A", "N", "G", "A", "N", "A">>

KERALA == <<"K", "E", "R", "A", "L", "A">>

GOA == <<"G", "O", "A">>

HYDERABAD == <<"H", "Y", "D", "E", "R", "A", "B", "A", "D">>

ERNAKULAM == <<"E", "R", "N", "A", "K", "U", "L", "A", "M">>

PANAJI == <<"P", "A", "N", "A", "J", "I">>

Kerala_mixed == <<"K", "e", "r", "a", "l", "a">>

Telangana_mixed == <<"T", "e", "l", "a", "n", "g", "a", "n", "a">>

Hyderabad_mixed == <<"H", "y", "d", "e", "r", "a", "b", "a", "d">>

Ernakulam_mixed == <<"E", "r", "n", "a", "k", "u", "l", "a", "m">>

Kerala_padded == <<" ", "k", "e", "r", "a", "l", "a", " ">>

Andhra_mixed == <<"A", "n", "d", "h", "r", "a", " ", "P", "r", "a", "d", "e", "s", "h">>

COL_STATE_UT_NAME == <<"S", "T", "A", "T", "E", "_", "U", "T", "_", "N", "A", "M", "E">>

COL_ANNUAL == <<"A", "N", "N", "U", "A", "L">>

COL_STATE == <<"S", "T", "A", "T", "E">>

COL_DISTRICT == <<"D", "I", "S", "T", "R", "I", "C", "T">>

COL_AQUIFER == <<"A", "Q", "U", "I", "F", "E", "R">>

COL_DEPTH == <<"G", "R", "O", "U", "N", "D", "W", "A", "T", "E", "R", "_", "D", "E", "P", "T", "H", "_", "M">>

Hdr_state_ut_name == <<" ", "S", "t", "a", "t", "e", "_", "U", "T", "_", "N", "a", "m", "e">>

Hdr_annual == <<"A", "n", "n", "u", "a", "l", " ">>

Hdr_state == <<"S", "t", "a", "t", "e">>

Hdr_district == <<" ", "D", "i", "s", "t", "r", "i", "c", "t">>

Hdr_aquifer == <<"A", "q", "u", "i", "f", "e", "r">>

Hdr_depth == <<"G", "r", "o", "u", "n", "d", "w", "a", "t", "e", "r", "_", "D", "e", "p", "t", "h", "_", "m", " ">>

Granite == <<"G", "r", "a", "n", "i", "t", "e">>

Laterite == <<"L", "a", "t", "e", "r", "i", "t", "e">>

Basalt == <<"B", "a", "s", "a", "l", "t">>

Alluvium == <<"A", "l", "l", "u", "v", "i", "u", "m">>

NA == <<"N", "/", "A">>

Txt_abc == <<"a", "b", "c">>

Txt_50 == <<"5", "0">>

Txt_0_8 == <<" ", "0", ".", "8">>

-----------------------------------------------------------------------------
(* Data files: a header row and data rows, a row being one cell per column *)

RainCsvClean ==
    [columns |-> <<COL_STATE_UT_NAME, COL_DISTRICT, COL_ANNUAL>>,
     rows    |-> << <<Str(ANDHRA_PRADESH), Str(HYDERABAD), Num(200)>>,
                    <<Str(ANDHRA_PRADESH), Str(PANAJI),    Num(202)>>,
                    <<Str(KERALA),         Str(ERNAKULAM), Num(250)>>,
                    <<Str(KERALA),         Str(PANAJI),    Num(350)>>,
                    <<Str(GOA),            Str(PANAJI),    Num(200)>> >>]

RainCsvRaw ==
    [columns |-> <<Hdr_state_ut_name, Hdr_district, Hdr_annual>>,
     rows    |-> << <<Str(ANDHRA_PRADESH), Str(HYDERABAD), Num(300)>>,
                    <<Str(TELANGANA),      Str(HYDERABAD), Num(100)>>,
                    <<Str(Kerala_mixed),   Str(ERNAKULAM), Num(250)>>,
                    <<Str(GOA),            Str(PANAJI),    Num(150)>>,
                    <<Str(GOA),            Str(PANAJI),    Num(250)>> >>]

GroundwaterCsvClean ==
    [columns |-> <<COL_STATE, COL_DISTRICT, COL_AQUIFER, COL_DEPTH>>,
     rows    |-> << <<Str(ANDHRA_PRADESH), Str(HYDERABAD), Str(Granite),  Num(12)>>,
                    <<Str(KERALA),         Str(ERNAKULAM), Str(Laterite), Num(5)>> >>]

GroundwaterCsvRaw ==
    [columns |-> <<Hdr_state, Hdr_district, Hdr_aquifer, Hdr_depth>>,
     rows    |-> << <<Str(Telangana_mixed), Str(Hyderabad_mixed), Str(Basalt),   Num(20)>>,
                    <<Str(Andhra_mixed),    Str(Hyderabad_mixed), Str(Granite),  Num(12)>>,
                    <<Str(Kerala_mixed),    Str(Ernakulam_mixed), Str(Laterite), Num(5)>>,
                    <<Str(KERALA),          Str(ERNAKULAM),       Str(Alluvium), Num(7)>> >>]

RainFiles == {RainCsvClean, RainCsvRaw}

GroundwaterFiles == {GroundwaterCsvClean, GroundwaterCsvRaw}

-----------------------------------------------------------------------------
(* Loading the datasets *)

\* df.columns = [col.strip().upper() for col in df.columns]
CleanColumns(csv) == [i \in DOMAIN csv.columns |-> Upper(Strip(csv.columns[i]))]

\* position of the column df[name] selects
Column(csv, name) == CHOOSE i \in DOMAIN csv.columns : CleanColumns(csv)[i] = name

RECURSIVE SumCells(_, _, _, _)
SumCells(rows, keycol, key, valcol) ==
    IF rows = <<>> THEN 0
    ELSE (IF Head(rows)[keycol].v = key THEN Head(rows)[valcol].n ELSE 0)
         + SumCells(Tail(rows), keycol, key, valcol)

CountCells(rows, keycol, key) ==
    Cardinality({i \in DOMAIN rows : rows[i][keycol].v = key})

\* df.groupby("STATE_UT_NAME")["ANNUAL"].mean().to_dict()
load_state_rainfall(csv) ==
    LET sc == Column(csv, COL_STATE_UT_NAME)
        ac == Column(csv, COL_ANNUAL)
        groups == {csv.rows[i][sc].v : i \in DOMAIN csv.rows}
    IN  [k \in groups |->
            Frac(SumCells(csv.rows, sc, k, ac), CountCells(csv.rows, sc, k))]

\* groundwater_dict[state][district] = {...}, creating groundwater_dict[state] first
PutDistrict(dict, state, district, entry) ==
    LET inner == IF state \in DOMAIN dict THEN dict[state] ELSE << >>
        inner2 == [d \in DOMAIN inner \cup {district} |->
                      IF d = district THEN entry ELSE inner[d]]
    IN  [s \in DOMAIN dict \cup {state} |-> IF s = state THEN inner2 ELSE dict[s]]

RECURSIVE IterRows(_, _, _)
IterRows(csv, i, dict) ==
    IF i > Len(csv.rows) THEN dict
    ELSE LET row == csv.rows[i]
             state == Upper(row[Column(csv, COL_STATE)].v)
             district == Upper(row[Column(csv, COL_DISTRICT)].v)
             entry == [aquifer |-> row[Column(csv, COL_AQUIFER)],
                       depth   |-> row[Column(csv, COL_DEPTH)]]
         IN  IterRows(csv, i + 1, PutDistrict(dict, state, district, entry))

load_groundwater_data(csv) == IterRows(csv, 1, << >>)

\* STATE_ALIAS = {"TELANGANA": "ANDHRA PRADESH"}
AliasLiteral == (TELANGANA :> ANDHRA_PRADESH)

NotAvailable == [aquifer |-> Str(NA), depth |-> Str(NA)]

-----------------------------------------------------------------------------
(* float() and int() of a JSON value *)

Digits == <<"0", "1", "2", "3", "4", "5", "6", "7", "8", "9">>

IsDigit(c) == \E i \in DOMAIN Digits : Digits[i] = c

DigitVal(c) == (CHOOSE i \in DOMAIN Digits : Digits[i] = c) - 1

Signed(s) == s # <<>> /\ Head(s) \in {"+", "-"}

Unsigned(s) == IF Signed(s) THEN Tail(s) ELSE s

SignOf(s) == IF Signed(s) /\ Head(s) = "-" THEN -1 ELSE 1

RECURSIVE DigitsValue(_, _)
DigitsValue(s, acc) ==
    IF s = <<>> THEN acc
    ELSE IF Head(s) = "." THEN DigitsValue(Tail(s), acc)
    ELSE DigitsValue(Tail(s), 10 * acc + DigitVal(Head(s)))

RECURSIVE Pow10(_)
Pow10(k) == IF k = 0 THEN 1 ELSE 10 * Pow10(k - 1)

DotAt(s) == IF \E i \in DOMAIN s : s[i] = "." THEN CHOOSE i \in DOMAIN s : s[i] = "." ELSE 0

IsIntLiteral(s) ==
    LET u == Unsigned(Strip(s))
    IN  u # <<>> /\ \A i \in DOMAIN u : IsDigit(u[i])

IsFloatLiteral(s) ==
    LET u == Unsigned(Strip(s))
    IN  /\ \E i \in DOMAIN u : IsDigit(u[i])
        /\ \A i \in DOMAIN u : IsDigit(u[i]) \/ u[i] = "."
        /\ Cardinality({i \in DOMAIN u : u[i] = "."}) <= 1

float_ok(x) == IsNum(x) \/ (IsStr(x) /\ IsFloatLiteral(x.v))

int_ok(x) == IsNum(x) \/ (IsStr(x) /\ IsIntLiteral(x.v))

\* the exception float() / int() raises on a value it does not take
conversion_error(x) == IF IsStr(x) THEN "ValueError" ELSE "TypeError"

py_float(x) ==
    IF IsNum(x) THEN x
    ELSE LET s == Strip(x.v)
             u == Unsigned(s)
             decimals == IF DotAt(u) = 0 THEN 0 ELSE Len(u) - DotAt(u)
         IN  Frac(SignOf(s) * DigitsValue(u, 0), Pow10(decimals))

\* int() of a number truncates towards zero
py_int(x) ==
    IF IsNum(x)
    THEN Num((IF x.n < 0 THEN -1 ELSE 1) * (Abs(x.n) \div x.d))
    ELSE LET s == Strip(x.v)
         IN  Num(SignOf(s) * DigitsValue(Unsigned(s), 0))

\* data.get(key, default), a key the request does not carry being Absent
Get(data, key, default) == IF data[key] = Absent THEN default ELSE data[key]

-----------------------------------------------------------------------------
(* Geocoding and area *)

\* a or b
Or(a, b) == IF Truthy(a) THEN a ELSE b

\* location.raw.get("address", {}) followed by address.get(key)
AddressGet(outcome, key) ==
    IF outcome.raw.address = Absent THEN None
    ELSE Get(outcome.raw.address, key, None)

\* as get_location_details, without the except clause
get_location_details_uncaught(outcome) ==
    CASE outcome.kind = "raise" -> [city |-> None, state |-> None, raised |-> outcome.error]
      [] outcome.kind = "none"  -> [city |-> None, state |-> None, raised |-> ""]
      [] outcome.kind = "location" ->
            [city   |-> Or(Or(AddressGet(outcome, "city"), AddressGet(outcome, "town")),
                           AddressGet(outcome, "village")),
             state  |-> AddressGet(outcome, "state"),
             raised |-> ""]

\* (city, state) from the outcome of geolocator.reverse(...); the except
\* clause turns every exception of the provider into (None, None)
get_location_details(outcome) ==
    CASE outcome.kind = "raise" -> [city |-> None, state |-> None, raised |-> ""]
      [] outcome.kind = "none"  -> [city |-> None, state |-> None, raised |-> ""]
      [] outcome.kind = "location" ->
            [city   |-> Or(Or(AddressGet(outcome, "city"), AddressGet(outcome, "town")),
                           AddressGet(outcome, "village")),
             state  |-> AddressGet(outcome, "state"),
             raised |-> ""]

\* abs(area) of the signed area geod.polygon_area_perimeter returns
calculate_area_m2(signed_area) == NumAbs(signed_area)

-----------------------------------------------------------------------------
(* The estimation formulas *)

\* Runoff coefficient (average for concrete roofs)
RUNOFF_COEFF == Frac(8, 10)

LitresPerPersonDay == 135

DaysPerYear == 365

MinArea == 20

MinRainfall == 200

\* area_m2 * rainfall * coeff / 1000
WaterLitres(area, rainfall, coeff) == Div(Mul(Mul(area, rainfall), coeff), Num(1000))

\* dwellers * 135 * 365
DomesticDemand(dwellers) ==
    Mul(Mul(dwellers, Num(LitresPerPersonDay)), Num(DaysPerYear))

\* as SufficiencyPercent, from the volume as it is displayed
SufficiencyOfRounded(water, demand) ==
    IF Truthy(demand) THEN Mul(Div(Round2(water), demand), Num(100)) ELSE Num(0)

\* (water_litres / domestic_demand * 100) if domestic_demand else 0
SufficiencyPercent(water, demand) ==
    IF Truthy(demand) THEN Mul(Div(water, demand), Num(100)) ELSE Num(0)

\* as Feasibility, the area threshold strict
FeasibilityStrictArea(area, rainfall) ==
    IF Less(Num(MinArea), area) /\ Less(Num(MinRainfall), rainfall)
    THEN "Feasible" ELSE "Not Feasible"

\* "Feasible" if area_m2 >= 20 and rainfall > 200 else "Not Feasible"
Feasibility(area, rainfall) ==
    IF LessEq(Num(MinArea), area) /\ Less(Num(MinRainfall), rainfall)
    THEN "Feasible" ELSE "Not Feasible"

-----------------------------------------------------------------------------
(* manual_calculate, statement by statement.  A handler's locals are a    *)
(* record; raised names the exception that ended the handler, "" if none. *)

NoLocals ==
    [raised |-> "", line |-> 0,
     state |-> None, district |-> None, city |-> None, state_key |-> None,
     area_m2 |-> None,
     coeff |-> None, dwellers |-> None, open_space |-> None, rainfall |-> None,
     groundwater |-> None, water_litres |-> None, domestic_demand |-> None,
     sufficiency_percent |-> None, feasible |-> None]

Raise(loc, error, line) == [loc EXCEPT !.raised = error, !.line = line]

\* lines 105-110
ManualParse(data) ==
    LET a == Get(data, "area_m2", Num(0))
        c == Get(data, "coefficient", RUNOFF_COEFF)
        d == Get(data, "dwellers", Num(1))
        o == Get(data, "open_space", Num(0))
    IN  IF ~float_ok(a) THEN Raise(NoLocals, conversion_error(a), 107)
        ELSE IF ~float_ok(c) THEN Raise(NoLocals, conversion_error(c), 108)
        ELSE IF ~int_ok(d) THEN Raise(NoLocals, conversion_error(d), 109)
        ELSE IF ~float_ok(o) THEN Raise(NoLocals, conversion_error(o), 110)
        ELSE [NoLocals EXCEPT !.state = Get(data, "state", None),
                              !.district = Get(data, "district", None),
                              !.area_m2 = py_float(a),
                              !.coeff = py_float(c),
                              !.dwellers = py_int(d),
                              !.open_space = py_float(o)]

\* as ManualAlias, the alias looked up under the name as typed
ManualAliasAsTyped(loc, alias) ==
    IF loc.raised # "" THEN loc
    ELSE IF Truthy(loc.state) /\ loc.state.v \in DOMAIN alias
         THEN [loc EXCEPT !.state = Str(alias[loc.state.v])]
         ELSE loc

\* lines 112-113
ManualAlias(loc, alias) ==
    IF loc.raised # "" THEN loc
    ELSE IF Truthy(loc.state) /\ Upper(loc.state.v) \in DOMAIN alias
         THEN [loc EXCEPT !.state = Str(alias[Upper(loc.state.v)])]
         ELSE loc

\* line 115
ManualRainfall(loc, rain) ==
    IF loc.raised # "" THEN loc
    ELSE [loc EXCEPT !.rainfall =
            IF Truthy(loc.state) THEN DictGet(rain, Upper(loc.state.v), Num(0))
            ELSE Num(0)]

\* as ManualGroundwater, by subscript: GROUNDWATER_DATA[state][district]
ManualGroundwaterSubscript(loc, gw) ==
    IF loc.raised # "" THEN loc
    ELSE IF ~IsStr(loc.state) THEN Raise(loc, "AttributeError", 116)
    ELSE IF Upper(loc.state.v) \notin DOMAIN gw THEN Raise(loc, "KeyError", 116)
    ELSE IF ~IsStr(loc.district) THEN Raise(loc, "AttributeError", 116)
    ELSE IF Upper(loc.district.v) \notin DOMAIN gw[Upper(loc.state.v)]
         THEN Raise(loc, "KeyError", 116)
    ELSE [loc EXCEPT !.groundwater = gw[Upper(loc.state.v)][Upper(loc.district.v)]]

\* line 116: state.upper() and district.upper() are called whatever they are
ManualGroundwater(loc, gw) ==
    IF loc.raised # "" THEN loc
    ELSE IF ~IsStr(loc.state) THEN Raise(loc, "AttributeError", 116)
    ELSE IF ~IsStr(loc.district) THEN Raise(loc, "AttributeError", 116)
    ELSE [loc EXCEPT !.groundwater =
            DictGet(DictGet(gw, Upper(loc.state.v), << >>),
                    Upper(loc.district.v), NotAvailable)]

\* lines 117-120
ManualCompute(loc) ==
    IF loc.raised # "" THEN loc
    ELSE LET water == WaterLitres(loc.area_m2, loc.rainfall, loc.coeff)
             demand == DomesticDemand(loc.dwellers)
         IN  [loc EXCEPT !.water_litres = water,
                         !.domestic_demand = demand,
                         !.sufficiency_percent = SufficiencyPercent(water, demand),
                         !.feasible = Feasibility(loc.area_m2, loc.rainfall)]

\* an exception that leaves a handler is answered 500 Internal Server Error
ServerError(loc) == [status |-> 500, body |-> [error |-> loc.raised]]

\* lines 122-134
ManualResponse(loc) ==
    IF loc.raised # "" THEN ServerError(loc)
    ELSE [status |-> 200,
          body |-> [state |-> loc.state,
                    district |-> loc.district,
                    area_m2 |-> Round2(loc.area_m2),
                    rainfall_mm_per_year |-> Round2(loc.rainfall),
                    water_litres |-> Round2(loc.water_litres),
                    dwellers |-> loc.dwellers,
                    domestic_demand |-> Round2(loc.domestic_demand),
                    sufficiency_percent |-> Round2(loc.sufficiency_percent),
                    feasible |-> loc.feasible,
                    aquifer |-> loc.groundwater.aquifer,
                    groundwater_depth |-> loc.groundwater.depth]]

\* the locals manual_calculate ends with, over the given tables
ManualLocals(data, alias, rain, gw) ==
    ManualCompute(ManualGroundwater(ManualRainfall(ManualAlias(ManualParse(data), alias), rain), gw))

-----------------------------------------------------------------------------
(* calculate, statement by statement *)

\* lines 155-162
GeoLocate(data, env) ==
    LET where == get_location_details(env.provider)
    IN  IF where.raised # "" THEN Raise(NoLocals, where.raised, 159)
        ELSE [NoLocals EXCEPT !.area_m2 = calculate_area_m2(env.geod),
                              !.city = where.city,
                              !.state = where.state,
                              !.rainfall = Num(0),
                              !.groundwater = NotAvailable]

\* as GeoRainfall, the rainfall lookup moved under the if city: of line 168
GeoRainfallUnderCity(loc, alias, rain) ==
    IF loc.raised # "" THEN loc
    ELSE IF Truthy(loc.state)
         THEN LET state_key == DictGet(alias, Upper(loc.state.v), Upper(loc.state.v))
              IN  [loc EXCEPT !.state_key = Str(state_key),
                              !.rainfall = IF Truthy(loc.city)
                                           THEN DictGet(rain, state_key, Num(0))
                                           ELSE Num(0)]
         ELSE loc

\* lines 164-166
GeoRainfall(loc, alias, rain) ==
    IF loc.raised # "" THEN loc
    ELSE IF Truthy(loc.state)
         THEN LET state_key == DictGet(alias, Upper(loc.state.v), Upper(loc.state.v))
              IN  [loc EXCEPT !.state_key = Str(state_key),
                              !.rainfall = DictGet(rain, state_key, Num(0))]
         ELSE loc

\* lines 168-169, inside the if state: of line 164
GeoGroundwater(loc, gw) ==
    IF loc.raised # "" THEN loc
    ELSE IF Truthy(loc.state) /\ Truthy(loc.city)
         THEN [loc EXCEPT !.groundwater =
                 DictGet(DictGet(gw, loc.state_key.v, << >>),
                         Upper(loc.city.v), NotAvailable)]
         ELSE loc

\* line 171
GeoCompute(loc) ==
    IF loc.raised # "" THEN loc
    ELSE [loc EXCEPT !.water_litres = WaterLitres(loc.area_m2, loc.rainfall, RUNOFF_COEFF)]

\* lines 173-182
GeoResponse(data, loc) ==
    IF loc.raised # "" THEN ServerError(loc)
    ELSE [status |-> 200,
          body |-> [coordinates |-> data.coordinates,
                    city |-> loc.city,
                    state |-> loc.state,
                    area_m2 |-> Round2(loc.area_m2),
                    rainfall_mm_per_year |-> Round2(loc.rainfall),
                    water_litres |-> Round2(loc.water_litres),
                    aquifer |-> loc.groundwater.aquifer,
                    groundwater_depth |-> loc.groundwater.depth]]

GeoLocals(data, env, alias, rain, gw) ==
    GeoCompute(GeoGroundwater(GeoRainfall(GeoLocate(data, env), alias, rain), gw))

-----------------------------------------------------------------------------
(* Requests and what the collaborators may answer *)

ManualStates ==
    {None, Str(<< >>), Str(TELANGANA), Str(Telangana_mixed), Str(ANDHRA_PRADESH),
     Str(KERALA), Str(Kerala_padded), Str(GOA), Str(PANAJI)}

ManualDistricts ==
    {Absent, Str(HYDERABAD), Str(Hyderabad_mixed), Str(ERNAKULAM), Str(PANAJI)}

ManualAreas == {Absent, Num(-5), Frac(39, 2), Num(20), Frac(161, 8), Str(Txt_50)}

ManualCoefficients == {Absent, Num(1), Str(Txt_abc), Str(Txt_0_8)}

ManualDwellers == {Absent, Num(-1), Num(0), Num(4), Frac(5, 2)}

ManualOpenSpaces == {Absent, Num(10)}

ManualRequests ==
    [state : ManualStates, district : ManualDistricts, area_m2 : ManualAreas,
     coefficient : ManualCoefficients, dwellers : ManualDwellers,
     open_space : ManualOpenSpaces]

Triangle == << <<Num(17), Num(78)>>, <<Num(17), Num(79)>>, <<Num(18), Num(78)>> >>

Square == << <<Num(10), Num(76)>>, <<Num(10), Num(77)>>, <<Num(11), Num(77)>>,
             <<Num(11), Num(76)>> >>

GeoRequests == [coordinates : {Triangle, Square}]

\* signed areas the geodesic library may return (clockwise rings are negative)
GeodAreas == {Frac(-12345, 100), Num(0), Frac(25063, 500), Num(20)}

Addresses ==
    [city    : {Absent, Str(<< >>), Str(Hyderabad_mixed)},
     town    : {Absent, Str(Ernakulam_mixed)},
     village : {Absent, Str(PANAJI)},
     state   : {Absent, Str(Telangana_mixed), Str(Andhra_mixed), Str(Kerala_mixed),
                Str(GOA)}]

ProviderOutcomes ==
    {[kind |-> "raise", error |-> "GeocoderTimedOut"],
     [kind |-> "raise", error |-> "GeocoderUnavailable"],
     [kind |-> "none"],
     [kind |-> "location", raw |-> [address |-> Absent]]}
    \cup {[kind |-> "location", raw |-> [address |-> a]] : a \in Addresses}

Environments == [provider : ProviderOutcomes, geod : GeodAreas]

NoRequest == [t |-> "None"]

NoEnvironment == [provider |-> [kind |-> "unused"], geod |-> Num(0)]

NoResponse == [status |-> 0]

-----------------------------------------------------------------------------
(* One request at a time *)

Threads == 1 .. NumThreads

Init ==
    /\ rainfall_csv \in RainFiles
    /\ groundwater_csv \in GroundwaterFiles
    /\ RAIN_DATA = load_state_rainfall(rainfall_csv)
    /\ GROUNDWATER_DATA = load_groundwater_data(groundwater_csv)
    /\ STATE_ALIAS = AliasLiteral
    /\ endpoint = "idle"
    /\ request = NoRequest
    /\ provider = NoEnvironment.provider
    /\ geod_area = NoEnvironment.geod
    /\ response = NoResponse
    /\ frame = NoLocals
    /\ pc = [t \in Threads |-> "idle"]
    /\ treq = [t \in Threads |-> NoRequest]
    /\ tenv = [t \in Threads |-> NoEnvironment]
    /\ tloc = [t \in Threads |-> NoLocals]
    /\ tresp = [t \in Threads |-> NoResponse]

\* POST /manual-calculate
manual_calculate ==
    /\ endpoint = "idle"
    /\ \E data \in ManualRequests :
          LET loc == ManualLocals(data, STATE_ALIAS, RAIN_DATA, GROUNDWATER_DATA)
          IN  /\ request' = data
              /\ frame' = loc
              /\ response' = ManualResponse(loc)
    /\ endpoint' = "manual"
    /\ UNCHANGED <<provider, geod_area>>
    /\ UNCHANGED tables
    /\ UNCHANGED threaded

\* POST /calculate
calculate ==
    /\ endpoint = "idle"
    /\ \E data \in GeoRequests, env \in Environments :
          LET loc == GeoLocals(data, env, STATE_ALIAS, RAIN_DATA, GROUNDWATER_DATA)
          IN  /\ request' = data
              /\ provider' = env.provider
              /\ geod_area' = env.geod
              /\ frame' = loc
              /\ response' = GeoResponse(data, loc)
    /\ endpoint' = "geo"
    /\ UNCHANGED tables
    /\ UNCHANGED threaded

\* the response is sent; nothing of the request is kept
Sent ==
    /\ endpoint # "idle"
    /\ endpoint' = "idle"
    /\ request' = NoRequest
    /\ provider' = NoEnvironment.provider
    /\ geod_area' = NoEnvironment.geod
    /\ response' = NoResponse
    /\ frame' = NoLocals
    /\ UNCHANGED tables
    /\ UNCHANGED threaded

Next == manual_calculate \/ calculate \/ Sent

Spec == Init /\ [][Next]_vars

-----------------------------------------------------------------------------
(* Properties of one request *)

ManualServed == endpoint = "manual"

GeoServed == endpoint = "geo"

Answered == response.status = 200

\* the request's numbers were all convertible (lines 107-110 did not raise)
Parsed == frame.raised = "" \/ frame.line = 116

\* the key a declared or resolved top-level name is looked up under
LookupKey(name) ==
    IF Upper(name) \in DOMAIN STATE_ALIAS THEN Upper(STATE_ALIAS[Upper(name)])
    ELSE Upper(name)

InGroundwaterTable(top, sub) ==
    top \in DOMAIN GROUNDWATER_DATA /\ sub \in DOMAIN GROUNDWATER_DATA[top]

\* out is a multiple of 0.01 no further than 0.005 from exact
NearestHundredth(out, exact) ==
    /\ 100 % out.d = 0
    /\ 200 * Abs(out.n * exact.d - exact.n * out.d) <= out.d * exact.d

\* C1: in manual estimation the verdict is "Feasible" exactly when the area is
\* at least 20 and the looked-up rainfall is above 200, "Not Feasible" otherwise
C1_FeasibleIff ==
    (ManualServed /\ Answered) =>
        /\ response.body.feasible \in {"Feasible", "Not Feasible"}
        /\ response.body.feasible = "Feasible" <=>
              /\ frame.area_m2.n >= 20 * frame.area_m2.d
              /\ frame.rainfall.n > 200 * frame.rainfall.d

C1_Witness ==
    /\ ManualServed /\ Answered
    /\ frame.area_m2 = Num(20)
    /\ frame.rainfall = Num(201)
    /\ response.body.feasible = "Feasible"

\* what a response says about rainfall and groundwater
Lookups(resp) ==
    IF resp.status = 200
    THEN <<resp.body.rainfall_mm_per_year, resp.body.aquifer, resp.body.groundwater_depth>>
    ELSE <<resp.status>>

IsTelangana(x) == IsStr(x) /\ Upper(x.v) = TELANGANA

ProviderSaysTelangana ==
    /\ provider.kind = "location"
    /\ provider.raw.address # Absent
    /\ IsTelangana(provider.raw.address.state)

\* C2: a request whose state is TELANGANA in any letter case gets the rainfall,
\* aquifer and depth of the same request with state ANDHRA PRADESH, in both paths
C2_AliasBothPaths ==
    /\ (ManualServed /\ IsTelangana(request.state)) =>
          Lookups(response) =
             Lookups(ManualResponse(ManualLocals(
                 [request EXCEPT !.state = Str(ANDHRA_PRADESH)],
                 STATE_ALIAS, RAIN_DATA, GROUNDWATER_DATA)))
    /\ (GeoServed /\ ProviderSaysTelangana) =>
          Lookups(response) =
             Lookups(GeoResponse(request, GeoLocals(
                 request,
                 [provider |-> [provider EXCEPT !.raw.address.state = Str(ANDHRA_PRADESH)],
                  geod |-> geod_area],
                 STATE_ALIAS, RAIN_DATA, GROUNDWATER_DATA)))

C2_Witness ==
    /\ ManualServed /\ Answered
    /\ request.state = Str(Telangana_mixed)
    /\ frame.rainfall = RAIN_DATA[ANDHRA_PRADESH]
    /\ frame.rainfall # Num(0)
    /\ response.body.aquifer = Str(Granite)

ProviderFailed == provider.kind \in {"raise", "none"}

\* C3: when the geocoding provider fails, calculate still answers, with no
\* region, rainfall 0, volume 0, groundwater N/A and the polygon's area
C3_ResolutionFailure ==
    (GeoServed /\ ProviderFailed) =>
        /\ Answered
        /\ response.body.city = None
        /\ response.body.state = None
        /\ response.body.rainfall_mm_per_year = Num(0)
        /\ response.body.water_litres = Num(0)
        /\ response.body.aquifer = Str(NA)
        /\ response.body.groundwater_depth = Str(NA)
        /\ NearestHundredth(response.body.area_m2, geod_area)
              \/ NearestHundredth(response.body.area_m2, Frac(-geod_area.n, geod_area.d))
        /\ response.body.area_m2.n >= 0

C3_Witness ==
    /\ GeoServed /\ Answered
    /\ provider.kind = "raise"
    /\ provider.error = "GeocoderTimedOut"
    /\ geod_area = Frac(25063, 500)
    /\ response.body.area_m2 = Frac(5013, 100)
    /\ response.body.city = None

\* C4: a (top, sub) pair of strings missing from the Groundwater Table at
\* either level yields aquifer N/A and depth N/A, a top-level name missing from
\* the Rainfall Table yields rainfall 0, and neither lookup raises
C4_LookupMiss ==
    /\ (ManualServed /\ Parsed /\ IsStr(request.state) /\ IsStr(request.district)) =>
          /\ Answered
          /\ ~InGroundwaterTable(LookupKey(request.state.v), Upper(request.district.v)) =>
                /\ response.body.aquifer = Str(NA)
                /\ response.body.groundwater_depth = Str(NA)
          /\ LookupKey(request.state.v) \notin DOMAIN RAIN_DATA =>
                response.body.rainfall_mm_per_year = Num(0)
    /\ GeoServed =>
          /\ Answered
          /\ (IsStr(response.body.state) /\ IsStr(response.body.city)) =>
                (~InGroundwaterTable(LookupKey(response.body.state.v),
                                     Upper(response.body.city.v)) =>
                    /\ response.body.aquifer = Str(NA)
                    /\ response.body.groundwater_depth = Str(NA))
          /\ IsStr(response.body.state) =>
                (LookupKey(response.body.state.v) \notin DOMAIN RAIN_DATA =>
                    response.body.rainfall_mm_per_year = Num(0))

C4_Witness ==
    /\ ManualServed /\ Answered
    /\ request.state = Str(KERALA)
    /\ request.district = Str(PANAJI)
    /\ KERALA \in DOMAIN GROUNDWATER_DATA
    /\ response.body.aquifer = Str(NA)
    /\ response.body.groundwater_depth = Str(NA)

\* strip and upper-case, the normal form of a region name
Normalize(name) == Upper(Strip(name))

RainfallRowsOf(name) ==
    {i \in DOMAIN rainfall_csv.rows :
        Normalize(rainfall_csv.rows[i][Column(rainfall_csv, COL_STATE_UT_NAME)].v)
            = Normalize(name)}

\* C5: every key of both tables is in normal form, and a declared state that is
\* a case or whitespace variant of a name in the rainfall file finds its entry
C5_SameNormalization ==
    /\ \A k \in DOMAIN RAIN_DATA : k = Normalize(k)
    /\ \A k \in DOMAIN GROUNDWATER_DATA :
          /\ k = Normalize(k)
          /\ \A d \in DOMAIN GROUNDWATER_DATA[k] : d = Normalize(d)
    /\ (/\ ManualServed /\ Answered
        /\ Normalize(request.state.v) \notin DOMAIN STATE_ALIAS
        /\ RainfallRowsOf(request.state.v) # {}) =>
            \E k \in DOMAIN RAIN_DATA :
                /\ Normalize(k) = Normalize(request.state.v)
                /\ frame.rainfall = RAIN_DATA[k]

IsNegative(x) == IsNum(x) /\ x.n < 0

InvalidManualInput ==
    \/ IsNegative(request.area_m2)
    \/ IsStr(request.coefficient) /\ ~IsFloatLiteral(request.coefficient.v)
    \/ IsNum(request.dwellers) /\ request.dwellers.n <= 0

\* C6: a manual request with a negative area, a non-numeric coefficient or
\* zero or negative dwellers is answered with a validation error (400)
C6_InvalidInputRejected ==
    (ManualServed /\ InvalidManualInput) => response.status = 400

\* C7: demand = dwellers x 135 x 365; volume x 1000 = area x rainfall x
\* coefficient on the unrounded values; sufficiency x demand = volume x 100
\* when demand is not zero, and sufficiency is 0 when demand is zero
C7_DemandAndSufficiency ==
    (ManualServed /\ Answered) =>
        /\ frame.domestic_demand = Frac(frame.dwellers.n * 135 * 365, frame.dwellers.d)
        /\ Mul(frame.water_litres, Num(1000))
              = Mul(frame.coeff, Mul(frame.rainfall, frame.area_m2))
        /\ frame.domestic_demand.n # 0 =>
              Mul(frame.sufficiency_percent, frame.domestic_demand)
                 = Mul(Num(100), frame.water_litres)
        /\ frame.domestic_demand.n = 0 => frame.sufficiency_percent = Num(0)
        /\ response.body.sufficiency_percent = Round2(frame.sufficiency_percent)
        /\ response.body.domestic_demand = frame.domestic_demand

C7_Witness ==
    /\ ManualServed /\ Answered
    /\ request.dwellers = Num(0)
    /\ frame.water_litres.n > 0
    /\ response.body.domestic_demand = Num(0)
    /\ response.body.sufficiency_percent = Num(0)

\* C9: calculate looks rainfall up whenever a state was resolved, groundwater
\* only when a city was resolved too, uses the coefficient 0.8, and reports
\* no verdict and no demand
C9_GeoByLevel ==
    GeoServed =>
        /\ Answered
        /\ frame.rainfall =
              IF Truthy(response.body.state)
              THEN DictGet(RAIN_DATA, LookupKey(response.body.state.v), Num(0))
              ELSE Num(0)
        /\ <<response.body.aquifer, response.body.groundwater_depth>> =
              IF /\ Truthy(response.body.state) /\ Truthy(response.body.city)
                 /\ InGroundwaterTable(LookupKey(response.body.state.v),
                                       Upper(response.body.city.v))
              THEN LET e == GROUNDWATER_DATA[LookupKey(response.body.state.v)]
                                            [Upper(response.body.city.v)]
                   IN  <<e.aquifer, e.depth>>
              ELSE <<Str(NA), Str(NA)>>
        /\ Mul(frame.water_litres, Num(10000))
              = Mul(Num(8), Mul(frame.rainfall, frame.area_m2))
        /\ DOMAIN response.body \cap
              {"feasible", "domestic_demand", "sufficiency_percent", "dwellers"} = {}

C9_Witness ==
    /\ GeoServed /\ Answered
    /\ IsStr(response.body.state)
    /\ response.body.city = None
    /\ response.body.rainfall_mm_per_year.n > 0
    /\ response.body.water_litres.n > 0
    /\ response.body.aquifer = Str(NA)

\* C10: a manual request without a state or without a district is still
\* answered: rainfall 0 when the state is missing, groundwater N/A
C10_MissingRegionIsMiss ==
    (/\ ManualServed /\ Parsed
     /\ request.state = None \/ request.district \in {None, Absent}) =>
        /\ Answered
        /\ request.state = None => response.body.rainfall_mm_per_year = Num(0)
        /\ response.body.aquifer = Str(NA)
        /\ response.body.groundwater_depth = Str(NA)

-----------------------------------------------------------------------------
(* Concurrent requests: each worker thread runs one handler, a statement  *)
(* at a time; the threads share nothing but the three module globals.     *)

ConcurrentManualRequests ==
    {[state |-> Str(Telangana_mixed), district |-> Str(Hyderabad_mixed),
      area_m2 |-> Num(20), coefficient |-> Absent, dwellers |-> Num(4),
      open_space |-> Absent],
     [state |-> Str(GOA), district |-> Str(PANAJI),
      area_m2 |-> Frac(161, 8), coefficient |-> Num(1), dwellers |-> Num(0),
      open_space |-> Absent],
     [state |-> Str(KERALA), district |-> Absent,
      area_m2 |-> Num(20), coefficient |-> Absent, dwellers |-> Absent,
      open_space |-> Absent]}

ConcurrentEnvironments ==
    {[provider |-> [kind |-> "raise", error |-> "GeocoderTimedOut"], geod |-> Num(20)],
     [provider |-> [kind |-> "location",
                    raw |-> [address |-> [city |-> Absent, town |-> Str(Ernakulam_mixed),
                                          village |-> Absent, state |-> Str(Kerala_mixed)]]],
      geod |-> Frac(-12345, 100)]}

IsGeo(data) == "coordinates" \in DOMAIN data

\* a worker thread takes a request off the socket
Accept(t) ==
    /\ pc[t] = "idle"
    /\ \/ \E data \in ConcurrentManualRequests :
             /\ treq' = [treq EXCEPT ![t] = data]
             /\ pc' = [pc EXCEPT ![t] = "manual_parse"]
             /\ UNCHANGED tenv
       \/ \E env \in ConcurrentEnvironments :
             /\ treq' = [treq EXCEPT ![t] = [coordinates |-> Triangle]]
             /\ tenv' = [tenv EXCEPT ![t] = env]
             /\ pc' = [pc EXCEPT ![t] = "geo_locate"]
    /\ UNCHANGED <<tloc, tresp>>
    /\ UNCHANGED tables
    /\ UNCHANGED single

\* the thread's locals become loc; an exception skips to the return
Step(t, loc, next, return) ==
    /\ tloc' = [tloc EXCEPT ![t] = loc]
    /\ pc' = [pc EXCEPT ![t] = IF loc.raised # "" THEN return ELSE next]
    /\ UNCHANGED <<treq, tenv, tresp>>
    /\ UNCHANGED single

ManualParseStep(t) ==
    /\ pc[t] = "manual_parse"
    /\ Step(t, ManualParse(treq[t]), "manual_alias", "manual_return")
    /\ UNCHANGED tables

ManualAliasStep(t) ==
    /\ pc[t] = "manual_alias"
    /\ Step(t, ManualAlias(tloc[t], STATE_ALIAS), "manual_rainfall", "manual_return")
    /\ UNCHANGED tables

ManualRainfallStep(t) ==
    /\ pc[t] = "manual_rainfall"
    /\ Step(t, ManualRainfall(tloc[t], RAIN_DATA), "manual_groundwater", "manual_return")
    /\ UNCHANGED tables

\* as ManualGroundwaterStep, with GROUNDWATER_DATA.setdefault(state.upper(), {})
ManualGroundwaterStepSetdefault(t) ==
    /\ pc[t] = "manual_groundwater"
    /\ Step(t, ManualGroundwater(tloc[t], GROUNDWATER_DATA), "manual_return", "manual_return")
    /\ GROUNDWATER_DATA' =
          IF IsStr(tloc[t].state) /\ Upper(tloc[t].state.v) \notin DOMAIN GROUNDWATER_DATA
          THEN [s \in DOMAIN GROUNDWATER_DATA \cup {Upper(tloc[t].state.v)} |->
                   IF s \in DOMAIN GROUNDWATER_DATA THEN GROUNDWATER_DATA[s] ELSE << >>]
          ELSE GROUNDWATER_DATA
    /\ UNCHANGED <<rainfall_csv, groundwater_csv, RAIN_DATA, STATE_ALIAS>>

ManualGroundwaterStep(t) ==
    /\ pc[t] = "manual_groundwater"
    /\ Step(t, ManualGroundwater(tloc[t], GROUNDWATER_DATA), "manual_return", "manual_return")
    /\ UNCHANGED tables

ManualReturnStep(t) ==
    /\ pc[t] = "manual_return"
    /\ LET loc == ManualCompute(tloc[t])
       IN  /\ tloc' = [tloc EXCEPT ![t] = loc]
           /\ tresp' = [tresp EXCEPT ![t] = ManualResponse(loc)]
    /\ pc' = [pc EXCEPT ![t] = "done"]
    /\ UNCHANGED <<treq, tenv>>
    /\ UNCHANGED tables
    /\ UNCHANGED single

GeoLocateStep(t) ==
    /\ pc[t] = "geo_locate"
    /\ Step(t, GeoLocate(treq[t], tenv[t]), "geo_rainfall", "geo_return")
    /\ UNCHANGED tables

GeoRainfallStep(t) ==
    /\ pc[t] = "geo_rainfall"
    /\ Step(t, GeoRainfall(tloc[t], STATE_ALIAS, RAIN_DATA), "geo_groundwater", "geo_return")
    /\ UNCHANGED tables

GeoGroundwaterStep(t) ==
    /\ pc[t] = "geo_groundwater"
    /\ Step(t, GeoGroundwater(tloc[t], GROUNDWATER_DATA), "geo_return", "geo_return")
    /\ UNCHANGED tables

GeoReturnStep(t) ==
    /\ pc[t] = "geo_return"
    /\ LET loc == GeoCompute(tloc[t])
       IN  /\ tloc' = [tloc EXCEPT ![t] = loc]
           /\ tresp' = [tresp EXCEPT ![t] = GeoResponse(treq[t], loc)]
    /\ pc' = [pc EXCEPT ![t] = "done"]
    /\ UNCHANGED <<treq, tenv>>
    /\ UNCHANGED tables
    /\ UNCHANGED single

NextConc ==
    \E t \in Threads :
        \/ Accept(t)
        \/ ManualParseStep(t)
        \/ ManualAliasStep(t)
        \/ ManualRainfallStep(t)
        \/ ManualGroundwaterStep(t)
        \/ ManualReturnStep(t)
        \/ GeoLocateStep(t)
        \/ GeoRainfallStep(t)
        \/ GeoGroundwaterStep(t)
        \/ GeoReturnStep(t)

SpecConc == Init /\ [][NextConc]_vars

\* the response a request gets when it is served alone, start to end,
\* over the tables as they are
ServedAlone(data, env) ==
    IF IsGeo(data)
    THEN GeoResponse(data, GeoLocals(data, env, STATE_ALIAS, RAIN_DATA, GROUNDWATER_DATA))
    ELSE ManualResponse(ManualLocals(data, STATE_ALIAS, RAIN_DATA, GROUNDWATER_DATA))

\* C8: under any interleaving of concurrent requests no step of a handler
\* changes one of the three tables, and the response a request ends with is
\* the one the request gets alone
C8_ReadOnlyTables ==
    [][/\ RAIN_DATA' = RAIN_DATA
       /\ GROUNDWATER_DATA' = GROUNDWATER_DATA
       /\ STATE_ALIAS' = STATE_ALIAS
       /\ \A t \in Threads :
             pc'[t] = "done" => tresp'[t] = ServedAlone(treq'[t], tenv'[t])]_vars

C8_Witness ==
    /\ \A t \in Threads : pc[t] = "done" /\ tresp[t].status = 200
    /\ ~IsGeo(treq[1])
    /\ IsGeo(treq[2])
    /\ tresp[1].body.aquifer = Str(Granite)
    /\ tresp[2].body.rainfall_mm_per_year.n > 0

====
